---- MODULE Spec2Model ----
(***************************************************************************)
(* A model of src/rrd.go: the Creator (schema builder), the Updater        *)
(* (sample buffer) and the Grapher (graph assembler) of the rrd wrapper,   *)
(* driven by concurrent callers.  The three unexported methods that cross  *)
(* the cgo boundary (Creator.create, Updater.update, Grapher.graph) are    *)
(* not in src/rrd.go; they are modelled from spec.md sections 4.4 and 6.   *)
(*                                                                         *)
(* The three objects share no state (spec.md section 2), so a behaviour    *)
(* drives one of them, chosen by `scope` in Init: the reachable states are *)
(* the union of the three objects' state spaces.  A behaviour on the       *)
(* Grapher uses the data elements or the print elements, beside the        *)
(* options and the render calls.                                           *)
(***************************************************************************)
EXTENDS Integers, Sequences, FiniteSets, TLC

\* ------------------------------------------------------------------ bounds
\* Operations the callers may start on the Creators, the Updater, the Grapher.
MaxCreatorOps == 3
MaxUpdaterOps == 3
MaxGrapherOps == 3
\* Operations the callers may start on the Grapher under FairSpec.
MaxFairOps == 2
\* Calls of the package's formatting functions under PureSpec, and the longest
\* argument list given to join there.
MaxPureOps == 1
MaxArgs == 3

\* The goroutines that call into the package.
Callers == {"t1", "t2"}

Scopes == {"creator", "updater", "grapher", "grapher_print", "format"}
\* A behaviour on the Grapher draws its element calls from Def, VDef, CDef
\* and Line ("grapher") or from the print elements ("grapher_print").
GrapherScopes == {"grapher", "grapher_print"}

\* ------------------------------------------------------------- values
\* An interface{} argument: a time.Time, an integer or a string.
TimeV(n) == [k |-> "time", n |-> n, s |-> ""]
IntV(n) == [k |-> "int", n |-> n, s |-> ""]
StrV(s) == [k |-> "str", n |-> 0, s |-> s]

\* error values: nil, an Error from the C library, an *os.PathError
Nil == "nil"
EngineError == "rrd.Error"
FsError == "os.PathError"

\* fmt.Sprint of a value: the default textual conversion.  A time.Time prints
\* as a calendar string.
Sprint(v) ==
  CASE v.k = "int" -> ToString(v.n)
    [] v.k = "str" -> v.s
    [] v.k = "time" -> "1970-01-01 00:00:0" \o ToString(v.n) \o " +0000 UTC"

RECURSIVE strings_Join_trailing(_, _)
strings_Join_trailing(sa, sep) ==
  IF Len(sa) = 0 THEN ""
  ELSE sa[1] \o sep \o strings_Join_trailing(Tail(sa), sep)

\* strings.Join
RECURSIVE strings_Join(_, _)
strings_Join(sa, sep) ==
  IF Len(sa) = 0 THEN ""
  ELSE IF Len(sa) = 1 THEN sa[1]
  ELSE sa[1] \o sep \o strings_Join(Tail(sa), sep)

joinElem_sprint(a) == Sprint(a)

\* join: a time.Time is printed as its Unix seconds, anything else by Sprint.
joinElem(a) == IF a.k = "time" THEN ToString(a.n) ELSE Sprint(a)

join(args) == strings_Join([i \in 1..Len(args) |-> joinElem(args[i])], ":")

\* ------------------------------------------------------------- inputs
\* Argument lists of Cache and Update(args...): never empty.
RowArgs == { <<TimeV(1), IntV(10)>>, <<StrV("N"), IntV(20)>> }
\* Argument lists of SetTemplate.
TemplateArgs == { <<"in", "out">> }
\* DS and RRA definitions.
DSArgs == { [name |-> "in", compute |-> "GAUGE",
             args |-> <<IntV(60), IntV(0), StrV("U")>>] }
RRAArgs == { [cf |-> "AVERAGE", args |-> <<IntV(1), IntV(24)>>] }

\* Values given to join: a time, an integer, a string, and a string that holds
\* the delimiter.
JoinValues == { TimeV(5), IntV(10), StrV("N"), StrV("a:b") }
\* The argument lists of join, the empty one included.
JoinArgs == UNION { [1..k -> JoinValues] : k \in 0..MaxArgs }
\* Variable names and format strings given to the Grapher's print elements.
PrintArgs == { [vname |-> v, format |-> f] : v \in {"a", "b"},
                                            f \in {"%lf", "%H:%M"} }

\* NewCreator's arguments, the same target for every Creator instance.
filename == "db.rrd"
start == TimeV(5)
step == 60

VARIABLES
  scope,        \* the object this behaviour drives
  opsLeft,      \* operations the callers may still start
  pc,           \* pc[t]: where caller t is inside its call ("idle": outside)
  call,         \* call[t]: the call t is in, or the last one it finished
  eng,          \* eng[t]: the engine's view of t's latest boundary call
  engineCalls,  \* invocations of each engine entry point
  c_args,       \* c_args[t]: Creator.args of the Creator owned by caller t
  fs,           \* the target file: "absent" or "present"
  creatable,    \* whether the target's directory lets a file be created
  deleted,      \* the target was removed by somebody outside the package
  probes,       \* exclusive creates of the target that returned nil
  u_template,   \* Updater.template
  u_args,       \* Updater.args, the pending buffer
  cacheLog,     \* rows given to Cache since the last zero-argument Update
  bufUsers,     \* callers that have used Cache or zero-argument Update
  g_m,          \* Grapher.m: the caller holding the mutex, "" when free
  g_opts,       \* Grapher.title, .vlabel, .width, .height
  g_args,       \* Grapher.args, the token sequence
  pushLog,      \* tokens of the element calls, in call order
  g_users       \* callers that have called a Grapher method

vars == <<scope, opsLeft, pc, call, eng, engineCalls, c_args, fs, creatable,
          deleted, probes, u_template, u_args, cacheLog, bufUsers, g_m, g_opts, g_args,
          pushLog, g_users>>

creatorVars == <<c_args, fs, creatable, deleted, probes>>
updaterVars == <<u_template, u_args, cacheLog, bufUsers>>
grapherVars == <<g_m, g_opts, g_args, pushLog, g_users>>

NoCall == [op |-> "none", args |-> <<>>, overwrite |-> FALSE, a |-> <<>>,
           err |-> Nil, ret |-> Nil, ncalls |-> 0, pre |-> <<>>,
           existed |-> FALSE]
\* A request at the boundary: the entry point, the target file, the scalar
\* options (update: the template; create: start and step; graph: title,
\* vertical label and size), the list of rows or tokens, and the answer.
NoReq == [entry |-> "none", target |-> "", opt |-> "", list |-> <<>>,
          out |-> Nil]

NewCall(op) == [NoCall EXCEPT !.op = op]

\* The objects as their constructors leave them, for a behaviour that drives
\* object s with n operations.
InitWith(s, n) ==
  /\ scope = s
  /\ opsLeft = n
  /\ pc = [t \in Callers |-> "idle"]
  /\ call = [t \in Callers |-> NoCall]
  /\ eng = [t \in Callers |-> NoReq]
  /\ engineCalls = [create |-> [t \in Callers |-> 0], update |-> 0, graph |-> 0]
  /\ c_args = [t \in Callers |-> <<>>]
  /\ fs \in (IF s = "creator" THEN {"absent", "present"} ELSE {"absent"})
  /\ creatable \in (IF s = "creator" THEN BOOLEAN ELSE {TRUE})
  /\ deleted = FALSE
  /\ probes = 0
  /\ u_template = ""
  /\ u_args = <<>>
  /\ cacheLog = <<>>
  /\ bufUsers = {}
  /\ g_m = ""
  /\ g_opts = [title |-> "", vlabel |-> "", width |-> 0, height |-> 0]
  /\ g_args = <<>>
  /\ pushLog = <<>>
  /\ g_users = {}

Init ==
  \/ InitWith("creator", MaxCreatorOps)
  \/ InitWith("updater", MaxUpdaterOps)
  \/ InitWith("grapher", MaxGrapherOps)
  \/ InitWith("grapher_print", MaxGrapherOps)

\* --------------------------------------------------------------- Updater
StartU(t) == scope = "updater" /\ pc[t] = "idle" /\ opsLeft > 0

\* SetTemplate: u.template = strings.Join(dsName, ":")
Updater_SetTemplate(t, dsName) ==
  /\ StartU(t)
  /\ opsLeft' = opsLeft - 1
  /\ u_template' = strings_Join(dsName, ":")
  /\ call' = [call EXCEPT ![t] = NoCall]
  /\ UNCHANGED <<scope, pc, eng, engineCalls, creatorVars, grapherVars,
                 u_args, cacheLog, bufUsers>>

\* Cache is called: the arguments are in the caller's frame.
Updater_Cache(t, args) ==
  /\ StartU(t)
  /\ opsLeft' = opsLeft - 1
  /\ call' = [call EXCEPT ![t] = [NewCall("Cache") EXCEPT !.args = args]]
  /\ pc' = [pc EXCEPT ![t] = "cache_read"]
  /\ cacheLog' = Append(cacheLog, join(args))
  /\ bufUsers' = bufUsers \cup {t}
  /\ UNCHANGED <<scope, eng, engineCalls, creatorVars, grapherVars,
                 u_template, u_args>>

Updater_Cache_read_stale(t) ==
  /\ pc[t] = "cache_read"
  /\ call' = [call EXCEPT ![t].a = <<join(call[t].args)>>]
  /\ pc' = [pc EXCEPT ![t] = "cache_store"]
  /\ UNCHANGED <<scope, opsLeft, eng, engineCalls, creatorVars,
                 updaterVars, grapherVars>>

\* Cache, the right-hand side: append(u.args, join(args)) on the u.args read
\* now.
Updater_Cache_read(t) ==
  /\ pc[t] = "cache_read"
  /\ call' = [call EXCEPT ![t].a = Append(u_args, join(call[t].args))]
  /\ pc' = [pc EXCEPT ![t] = "cache_store"]
  /\ UNCHANGED <<scope, opsLeft, eng, engineCalls, creatorVars,
                 updaterVars, grapherVars>>

Updater_Cache_store_submit(t) ==
  /\ pc[t] = "cache_store"
  /\ u_args' = call[t].a
  /\ pc' = [pc EXCEPT ![t] = "idle"]
  /\ call' = [call EXCEPT ![t] = NoCall]
  /\ eng' = [eng EXCEPT ![t] =
               [entry |-> "update", target |-> filename, opt |-> u_template,
                list |-> call[t].a, out |-> Nil]]
  /\ engineCalls' = [engineCalls EXCEPT !.update = @ + 1]
  /\ UNCHANGED <<scope, opsLeft, creatorVars, grapherVars, u_template,
                 cacheLog, bufUsers>>

\* Cache, the assignment to u.args.
Updater_Cache_store(t) ==
  /\ pc[t] = "cache_store"
  /\ u_args' = call[t].a
  /\ pc' = [pc EXCEPT ![t] = "idle"]
  /\ call' = [call EXCEPT ![t] = NoCall]
  /\ UNCHANGED <<scope, opsLeft, eng, engineCalls, creatorVars,
                 grapherVars, u_template, cacheLog, bufUsers>>

ImmediateRows_shared(buf, args) == Append(buf, join(args))

\* The slice Update(args...) hands to u.update when args is not empty.
ImmediateRows(buf, args) == <<join(args)>>

Updater_Update_args_buffered(t, args) ==
  /\ StartU(t)
  /\ Len(args) # 0
  /\ opsLeft' = opsLeft - 1
  /\ call' = [call EXCEPT ![t] =
                [NewCall("Update") EXCEPT !.args = args,
                                          !.a = <<join(args)>>]]
  /\ pc' = [pc EXCEPT ![t] = "update_call"]
  /\ u_args' = <<>>
  /\ UNCHANGED <<scope, eng, engineCalls, creatorVars, grapherVars,
                 u_template, cacheLog, bufUsers>>

\* Update with arguments: a one-row slice of its own, then u.update(a).
Updater_Update_args(t, args) ==
  /\ StartU(t)
  /\ Len(args) # 0
  /\ opsLeft' = opsLeft - 1
  /\ call' = [call EXCEPT ![t] =
                [NewCall("Update") EXCEPT !.args = args,
                                          !.a = ImmediateRows(u_args, args)]]
  /\ pc' = [pc EXCEPT ![t] = "update_call"]
  /\ UNCHANGED <<scope, eng, engineCalls, creatorVars, updaterVars,
                 grapherVars>>

Updater_Update_flush_unchecked(t) ==
  /\ StartU(t)
  /\ opsLeft' = opsLeft - 1
  /\ bufUsers' = bufUsers \cup {t}
  /\ cacheLog' = <<>>
  /\ call' = [call EXCEPT ![t] =
                [NewCall("Flush") EXCEPT !.a = u_args, !.pre = cacheLog]]
  /\ pc' = [pc EXCEPT ![t] = "update_call"]
  /\ UNCHANGED <<scope, eng, engineCalls, creatorVars, grapherVars,
                 u_template, u_args>>

\* Update without arguments: u.update(u.args) when the buffer is not empty,
\* otherwise return nil.
Updater_Update_flush(t) ==
  /\ StartU(t)
  /\ opsLeft' = opsLeft - 1
  /\ bufUsers' = bufUsers \cup {t}
  /\ cacheLog' = <<>>
  /\ IF Len(u_args) # 0
       THEN /\ call' = [call EXCEPT ![t] =
                          [NewCall("Flush") EXCEPT !.a = u_args,
                                                   !.pre = cacheLog]]
            /\ pc' = [pc EXCEPT ![t] = "update_call"]
       ELSE /\ call' = [call EXCEPT ![t] =
                          [NewCall("Flush") EXCEPT !.pre = cacheLog]]
            /\ pc' = pc
  /\ UNCHANGED <<scope, eng, engineCalls, creatorVars, grapherVars,
                 u_template, u_args>>

\* u.update(args): one request to the engine's update entry point with the
\* Updater's file name and template and the rows given; the engine answers
\* nil or an error.
Updater_update(t) ==
  /\ pc[t] = "update_call"
  /\ \E out \in {Nil, EngineError} :
       /\ eng' = [eng EXCEPT ![t] =
                    [entry |-> "update", target |-> filename,
                     opt |-> u_template, list |-> call[t].a,
                     out |-> out]]
       /\ call' = [call EXCEPT ![t].err = out, ![t].ncalls = @ + 1]
  /\ engineCalls' = [engineCalls EXCEPT !.update = @ + 1]
  /\ pc' = [pc EXCEPT ![t] = "update_back"]
  /\ UNCHANGED <<scope, opsLeft, creatorVars, updaterVars,
                 grapherVars>>

FlushedBuffer_requeue(buf, err) == IF err = Nil THEN <<>> ELSE buf

\* The pending buffer after a flush whose engine request answered err.
FlushedBuffer(buf, err) == <<>>

AfterUpdate_retry(err) == IF err = Nil THEN "idle" ELSE "update_call"

\* Where Update goes once u.update has answered err: it returns.
AfterUpdate(err) == "idle"

Updater_Update_ret_reset(t) ==
  /\ pc[t] = "update_back"
  /\ pc' = [pc EXCEPT ![t] = "idle"]
  /\ call' = [call EXCEPT ![t].ret = call[t].err]
  /\ u_args' = IF call[t].op = "Flush" THEN <<>> ELSE u_args
  /\ u_template' = IF call[t].op = "Flush" THEN "" ELSE u_template
  /\ UNCHANGED <<scope, opsLeft, eng, engineCalls, creatorVars, grapherVars,
                 cacheLog, bufUsers>>

\* Update after u.update has returned: the immediate path returns the error,
\* the flush sets u.args = nil and returns the error.
Updater_Update_ret(t) ==
  /\ pc[t] = "update_back"
  /\ pc' = [pc EXCEPT ![t] = AfterUpdate(call[t].err)]
  /\ call' = [call EXCEPT ![t].ret = call[t].err]
  /\ u_args' = IF call[t].op = "Flush"
                 THEN FlushedBuffer(u_args, call[t].err) ELSE u_args
  /\ UNCHANGED <<scope, opsLeft, eng, engineCalls, creatorVars, grapherVars,
                 u_template, cacheLog, bufUsers>>

NextUpdater ==
  \E t \in Callers :
    \/ \E ds \in TemplateArgs : Updater_SetTemplate(t, ds)
    \/ \E args \in RowArgs : Updater_Cache(t, args)
    \/ Updater_Cache_read(t)
    \/ Updater_Cache_store(t)
    \/ \E args \in RowArgs : Updater_Update_args(t, args)
    \/ Updater_Update_flush(t)
    \/ Updater_update(t)
    \/ Updater_Update_ret(t)

\* --------------------------------------------------------------- Creator
\* Caller t owns one Creator, NewCreator(filename, start, step); the Creators
\* of different callers name the same target.
StartC(t) == scope = "creator" /\ pc[t] = "idle" /\ opsLeft > 0

Creator_DS_front(t, name, compute, args) ==
  /\ StartC(t)
  /\ opsLeft' = opsLeft - 1
  /\ c_args' = [c_args EXCEPT ![t] =
                  <<"DS:" \o name \o ":" \o compute \o ":" \o join(args)>> \o @]
  /\ call' = [call EXCEPT ![t] = NoCall]
  /\ UNCHANGED <<scope, pc, eng, engineCalls, fs, creatable, deleted, probes,
                 updaterVars, grapherVars>>

\* DS: c.args = append(c.args, "DS:"+name+":"+compute+":"+join(args))
Creator_DS(t, name, compute, args) ==
  /\ StartC(t)
  /\ opsLeft' = opsLeft - 1
  /\ c_args' = [c_args EXCEPT ![t] =
                  Append(@, "DS:" \o name \o ":" \o compute \o ":" \o join(args))]
  /\ call' = [call EXCEPT ![t] = NoCall]
  /\ UNCHANGED <<scope, pc, eng, engineCalls, fs, creatable, deleted, probes,
                 updaterVars, grapherVars>>

\* RRA: c.args = append(c.args, "RRA:"+cf+":"+join(args))
Creator_RRA(t, cf, args) ==
  /\ StartC(t)
  /\ opsLeft' = opsLeft - 1
  /\ c_args' = [c_args EXCEPT ![t] =
                  Append(@, "RRA:" \o cf \o ":" \o join(args))]
  /\ call' = [call EXCEPT ![t] = NoCall]
  /\ UNCHANGED <<scope, pc, eng, engineCalls, fs, creatable, deleted, probes,
                 updaterVars, grapherVars>>

OpenExcl_noexcl(file, canCreate) ==
  IF file = "absent" /\ ~canCreate
    THEN [err |-> FsError, file |-> file]
    ELSE [err |-> Nil, file |-> "present"]

\* os.OpenFile(name, O_WRONLY|O_CREATE|O_EXCL, 0666) on a target in state
\* `file`: the error returned, and the target's state afterwards.
OpenExcl(file, canCreate) ==
  IF file = "present" \/ ~canCreate
    THEN [err |-> FsError, file |-> file]
    ELSE [err |-> Nil, file |-> "present"]

Creator_Create_unlink(t, overwrite) ==
  /\ StartC(t)
  /\ opsLeft' = opsLeft - 1
  /\ LET probe == IF overwrite THEN [err |-> Nil, file |-> fs]
                  ELSE OpenExcl(fs, creatable)
         c == [NewCall("Create") EXCEPT !.overwrite = overwrite,
                                        !.existed = (fs = "present")]
     IN /\ fs' = fs
        /\ probes' = IF ~overwrite /\ probe.err = Nil THEN probes + 1 ELSE probes
        /\ IF probe.err # Nil
             THEN /\ call' = [call EXCEPT ![t] =
                                [c EXCEPT !.err = probe.err, !.ret = probe.err]]
                  /\ pc' = pc
             ELSE /\ call' = [call EXCEPT ![t] = c]
                  /\ pc' = [pc EXCEPT ![t] = "create_call"]
  /\ UNCHANGED <<scope, eng, engineCalls, c_args, creatable, deleted,
                 updaterVars, grapherVars>>

\* Create up to its call of c.create(): with overwrite false, the exclusive
\* create of the target comes first and its error is returned.
Creator_Create(t, overwrite) ==
  /\ StartC(t)
  /\ opsLeft' = opsLeft - 1
  /\ LET probe == IF overwrite THEN [err |-> Nil, file |-> fs]
                  ELSE OpenExcl(fs, creatable)
         c == [NewCall("Create") EXCEPT !.overwrite = overwrite,
                                        !.existed = (fs = "present")]
     IN /\ fs' = probe.file
        /\ probes' = IF ~overwrite /\ probe.err = Nil THEN probes + 1 ELSE probes
        /\ IF probe.err # Nil
             THEN /\ call' = [call EXCEPT ![t] =
                                [c EXCEPT !.err = probe.err, !.ret = probe.err]]
                  /\ pc' = pc
             ELSE /\ call' = [call EXCEPT ![t] = c]
                  /\ pc' = [pc EXCEPT ![t] = "create_call"]
  /\ UNCHANGED <<scope, eng, engineCalls, c_args, creatable, deleted,
                 updaterVars, grapherVars>>

\* c.create(): one request to the engine's create entry point with the
\* Creator's target, start, step and tokens; on success the database file
\* is on disk.
Creator_create(t) ==
  /\ pc[t] = "create_call"
  /\ \E out \in {Nil, EngineError} :
       /\ eng' = [eng EXCEPT ![t] =
                    [entry |-> "create", target |-> filename,
                     opt |-> ToString(start.n) \o "/" \o ToString(step),
                     list |-> c_args[t], out |-> out]]
       /\ call' = [call EXCEPT ![t].err = out, ![t].ncalls = @ + 1]
       /\ fs' = IF out = Nil THEN "present" ELSE fs
  /\ engineCalls' = [engineCalls EXCEPT !.create[t] = @ + 1]
  /\ pc' = [pc EXCEPT ![t] = "create_back"]
  /\ UNCHANGED <<scope, opsLeft, c_args, creatable, deleted, probes, updaterVars,
                 grapherVars>>

AfterCreate_retry(err) == IF err = Nil THEN "idle" ELSE "create_call"

\* Where Create goes once c.create() has answered err: it returns.
AfterCreate(err) == "idle"

\* Create returns what c.create() returned.
Creator_Create_ret(t) ==
  /\ pc[t] = "create_back"
  /\ pc' = [pc EXCEPT ![t] = AfterCreate(call[t].err)]
  /\ call' = [call EXCEPT ![t].ret = call[t].err]
  /\ UNCHANGED <<scope, opsLeft, eng, engineCalls, creatorVars, updaterVars,
                 grapherVars>>

\* Somebody outside the package removes the target file.
RemoveTarget ==
  /\ scope = "creator"
  /\ fs = "present"
  /\ ~deleted
  /\ fs' = "absent"
  /\ deleted' = TRUE
  /\ UNCHANGED <<scope, opsLeft, pc, call, eng, engineCalls, c_args, creatable, probes,
                 updaterVars, grapherVars>>

NextCreator ==
  \/ \E t \in Callers :
       \/ \E d \in DSArgs : Creator_DS(t, d.name, d.compute, d.args)
       \/ \E r \in RRAArgs : Creator_RRA(t, r.cf, r.args)
       \/ \E overwrite \in BOOLEAN : Creator_Create(t, overwrite)
       \/ Creator_create(t)
       \/ Creator_Create_ret(t)
  \/ RemoveTarget

\* --------------------------------------------------------------- Grapher
StartG(t) == scope \in GrapherScopes /\ pc[t] = "idle" /\ opsLeft > 0

\* The token push builds: cmd, then ":" and the options joined by ":" when
\* there are options.
PushToken(cmd, options) ==
  IF Len(options) > 0 THEN cmd \o ":" \o strings_Join(options, ":") ELSE cmd

AppendToken_front(tokens, tok) == <<tok>> \o tokens

\* append(g.args, cmd)
AppendToken(tokens, tok) == Append(tokens, tok)

\* push, first half: evaluate append(g.args, cmd) on the g.args read now.
Grapher_push(t, op, cmd, options) ==
  /\ StartG(t)
  /\ opsLeft' = opsLeft - 1
  /\ LET tok == PushToken(cmd, options)
     IN /\ call' = [call EXCEPT ![t] =
                      [NewCall(op) EXCEPT !.a = AppendToken(g_args, tok)]]
        /\ pushLog' = Append(pushLog, tok)
  /\ pc' = [pc EXCEPT ![t] = "push_store"]
  /\ g_users' = g_users \cup {t}
  /\ UNCHANGED <<scope, eng, engineCalls, creatorVars, updaterVars, g_m,
                 g_opts, g_args>>

Grapher_push_store_locked(t) ==
  /\ pc[t] = "push_store"
  /\ g_m = ""
  /\ g_args' = call[t].a
  /\ pc' = [pc EXCEPT ![t] = "idle"]
  /\ call' = [call EXCEPT ![t] = NoCall]
  /\ UNCHANGED <<scope, opsLeft, eng, engineCalls, creatorVars,
                 updaterVars, g_m, g_opts, pushLog, g_users>>

\* push, second half: the assignment to g.args.
Grapher_push_store(t) ==
  /\ pc[t] = "push_store"
  /\ g_args' = call[t].a
  /\ pc' = [pc EXCEPT ![t] = "idle"]
  /\ call' = [call EXCEPT ![t] = NoCall]
  /\ UNCHANGED <<scope, opsLeft, eng, engineCalls, creatorVars,
                 updaterVars, g_m, g_opts, pushLog, g_users>>

\* fmt.Sprintf("%f", w) of a whole number w
FormatF(w) == ToString(w) \o ".000000"

Grapher_Def(t, vname, rrdfile, dsname, cf, options) ==
  Grapher_push(t, "Def",
    "DEF:" \o vname \o "=" \o rrdfile \o ":" \o dsname \o ":" \o cf, options)

Grapher_VDef(t, vname, rpn) ==
  Grapher_push(t, "VDef", "VDEF:" \o vname \o "=" \o rpn, <<>>)

Grapher_CDef(t, vname, rpn) ==
  Grapher_push(t, "CDef", "CDEF:" \o vname \o "=" \o rpn, <<>>)

Grapher_Line(t, width, value, color, options) ==
  Grapher_push(t, "Line",
    "LINE" \o FormatF(width) \o ":" \o value
           \o (IF color # "" THEN "#" \o color ELSE ""), options)

\* The element Print hands to push.
Print_token(vname, format) == "PRINT:" \o vname \o ":" \o format

PrintT_token_plain(vname, format) == "PRINT:" \o vname \o ":" \o format

\* The element PrintT hands to push.
PrintT_token(vname, format) ==
  "PRINT:" \o vname \o ":" \o format \o ":strftime"

\* The element GPrint hands to push.
GPrint_token(vname, format) == "GPRINT:" \o vname \o ":" \o format

\* The element GPrintT hands to push.
GPrintT_token(vname, format) ==
  "GPRINT:" \o vname \o ":" \o format \o ":strftime"

Grapher_Print(t, vname, format) ==
  Grapher_push(t, "Print", Print_token(vname, format), <<>>)

Grapher_PrintT(t, vname, format) ==
  Grapher_push(t, "PrintT", PrintT_token(vname, format), <<>>)

Grapher_GPrint(t, vname, format) ==
  Grapher_push(t, "GPrint", GPrint_token(vname, format), <<>>)

Grapher_GPrintT(t, vname, format) ==
  Grapher_push(t, "GPrintT", GPrintT_token(vname, format), <<>>)

\* SetTitle, SetVLabel, SetSize: one or two field assignments.
Grapher_set(t, opts) ==
  /\ StartG(t)
  /\ opsLeft' = opsLeft - 1
  /\ g_opts' = opts
  /\ call' = [call EXCEPT ![t] = NoCall]
  /\ g_users' = g_users \cup {t}
  /\ UNCHANGED <<scope, pc, eng, engineCalls, creatorVars, updaterVars, g_m,
                 g_args, pushLog>>

Grapher_SetTitle(t, title) ==
  Grapher_set(t, [g_opts EXCEPT !.title = title])

Grapher_SetVLabel(t, vlabel) ==
  Grapher_set(t, [g_opts EXCEPT !.vlabel = vlabel])

Grapher_SetSize(t, width, height) ==
  Grapher_set(t, [g_opts EXCEPT !.width = width, !.height = height])

\* Graph and SaveGraph up to their call of g.graph(filename, start, end).
Grapher_render(t, op, fname) ==
  /\ StartG(t)
  /\ opsLeft' = opsLeft - 1
  /\ call' = [call EXCEPT ![t] = [NewCall(op) EXCEPT !.a = <<fname>>]]
  /\ pc' = [pc EXCEPT ![t] = "graph_call"]
  /\ g_users' = g_users \cup {t}
  /\ UNCHANGED <<scope, eng, engineCalls, creatorVars, updaterVars, g_m,
                 g_opts, g_args, pushLog>>

Grapher_Graph(t) == Grapher_render(t, "Graph", "-")

Grapher_SaveGraph(t, fname) == Grapher_render(t, "SaveGraph", fname)

LockFree_nolock(m) == TRUE

\* Whether g.graph may take the Grapher's lock: only when it is free.
LockFree(m) == m = ""

Unlocked_onsuccess(m, out) == IF out = Nil THEN "" ELSE m

\* The lock after g.graph's engine request has answered: released.
Unlocked(m, out) == ""

\* g.graph, first half: take the Grapher's lock, then enter the engine's
\* graph entry point with the target, the options and the tokens.
Grapher_graph_enter(t) ==
  /\ pc[t] = "graph_call"
  /\ LockFree(g_m)
  /\ g_m' = t
  /\ eng' = [eng EXCEPT ![t] =
               [entry |-> "graph", target |-> call[t].a[1],
                opt |-> g_opts.title \o "|" \o g_opts.vlabel \o "|"
                          \o ToString(g_opts.width) \o "x"
                          \o ToString(g_opts.height),
                list |-> g_args, out |-> Nil]]
  /\ call' = [call EXCEPT ![t].ncalls = @ + 1]
  /\ engineCalls' = [engineCalls EXCEPT !.graph = @ + 1]
  /\ pc' = [pc EXCEPT ![t] = "graph_engine"]
  /\ UNCHANGED <<scope, opsLeft, creatorVars, updaterVars, g_opts, g_args,
                 pushLog, g_users>>

\* g.graph, second half: the engine answers and the lock is released.
Grapher_graph_leave(t) ==
  /\ pc[t] = "graph_engine"
  /\ \E out \in {Nil, EngineError} :
       /\ eng' = [eng EXCEPT ![t].out = out]
       /\ call' = [call EXCEPT ![t].err = out]
       /\ g_m' = Unlocked(g_m, out)
  /\ pc' = [pc EXCEPT ![t] = "graph_back"]
  /\ UNCHANGED <<scope, opsLeft, engineCalls, creatorVars, updaterVars, g_opts,
                 g_args, pushLog, g_users>>

\* Where Graph and SaveGraph go once g.graph has answered err: they return.
AfterGraph(err) == "idle"

\* Graph and SaveGraph return what g.graph returned.
Grapher_render_ret(t) ==
  /\ pc[t] = "graph_back"
  /\ pc' = [pc EXCEPT ![t] = AfterGraph(call[t].err)]
  /\ call' = [call EXCEPT ![t].ret = call[t].err]
  /\ UNCHANGED <<scope, opsLeft, eng, engineCalls, creatorVars, updaterVars,
                 grapherVars>>

NextGrapher ==
  \E t \in Callers :
    \/ /\ scope = "grapher"
       /\ \/ Grapher_Def(t, "a", "db.rrd", "in", "AVERAGE", <<"step=60">>)
          \/ Grapher_VDef(t, "b", "a,MAXIMUM")
          \/ Grapher_CDef(t, "c", "a,8,*")
          \/ \E color \in {"", "FF0000"} : Grapher_Line(t, 1, "a", color, <<>>)
    \/ /\ scope = "grapher_print"
       /\ \/ Grapher_Print(t, "b", "%lf")
          \/ Grapher_PrintT(t, "b", "%lf")
          \/ Grapher_GPrint(t, "b", "%lf")
          \/ Grapher_GPrintT(t, "b", "%lf")
    \/ Grapher_push_store(t)
    \/ Grapher_SetTitle(t, "Traffic")
    \/ Grapher_SetVLabel(t, "bps")
    \/ Grapher_SetSize(t, 400, 100)
    \/ Grapher_Graph(t)
    \/ Grapher_SaveGraph(t, "out.png")
    \/ Grapher_graph_enter(t)
    \/ Grapher_graph_leave(t)
    \/ Grapher_render_ret(t)

Next == NextCreator \/ NextUpdater \/ NextGrapher

Spec == Init /\ [][Next]_vars

\* The Grapher alone, with the scheduling the render path relies on: a
\* goroutine blocked in sync.Mutex.Lock gets the mutex if it is free again
\* and again (the mutex's starvation mode hands it to the longest waiter),
\* and an engine request that has been entered returns.
InitGrapher ==
  \E s \in GrapherScopes : InitWith(s, MaxFairOps)

FairSpec ==
  /\ InitGrapher
  /\ [][NextGrapher]_vars
  /\ \A t \in Callers : SF_vars(Grapher_graph_enter(t))
  /\ \A t \in Callers : WF_vars(Grapher_graph_leave(t))

\* ------------------------------------------------------- pure functions
\* The package's formatting functions applied to arguments of the callers'
\* choice: call[t].args holds the arguments, call[t].a the results.
StartF(t) == scope = "format" /\ pc[t] = "idle" /\ opsLeft > 0

\* join(args)
Call_join(t, args) ==
  /\ StartF(t)
  /\ opsLeft' = opsLeft - 1
  /\ call' = [call EXCEPT ![t] =
                [NewCall("join") EXCEPT !.args = args, !.a = <<join(args)>>]]
  /\ UNCHANGED <<scope, pc, eng, engineCalls, creatorVars, updaterVars,
                 grapherVars>>

\* The elements Print, PrintT, GPrint and GPrintT build from the same
\* variable name and format.
Call_print_tokens(t, vname, format) ==
  /\ StartF(t)
  /\ opsLeft' = opsLeft - 1
  /\ call' = [call EXCEPT ![t] =
                [NewCall("tokens") EXCEPT
                   !.args = <<StrV(vname), StrV(format)>>,
                   !.a = << Print_token(vname, format),
                            PrintT_token(vname, format),
                            GPrint_token(vname, format),
                            GPrintT_token(vname, format) >>]]
  /\ UNCHANGED <<scope, pc, eng, engineCalls, creatorVars, updaterVars,
                 grapherVars>>

NextFormat ==
  \E t \in Callers :
    \/ \E args \in JoinArgs : Call_join(t, args)
    \/ \E p \in PrintArgs : Call_print_tokens(t, p.vname, p.format)

InitFormat == InitWith("format", MaxPureOps)

PureSpec == InitFormat /\ [][NextFormat]_vars

\* ================================================================ claims
Renders == {"Graph", "SaveGraph"}

\* C1: for the only caller t that uses the buffered path, between its calls
\* the pending buffer is the rows given to Cache since the last flush, in call
\* order; a zero-argument Update sends exactly those rows in one engine
\* request, and once it has returned the buffer is empty, whatever the engine
\* answered.
C1_CacheThenFlush ==
  \A t \in Callers :
    bufUsers \subseteq {t} =>
      /\ pc[t] = "idle" => u_args = cacheLog
      /\ (call[t].op = "Flush" /\ call[t].ncalls >= 1) =>
           /\ call[t].ncalls = 1
           /\ eng[t].entry = "update"
           /\ eng[t].list = call[t].pre
      /\ (call[t].op = "Flush" /\ pc[t] = "idle") =>
           /\ u_args = <<>>
           /\ call[t].pre # <<>> => call[t].ncalls = 1

\* C1 witness: two different rows cached by one caller, flushed in one request
\* that the engine refused, and the buffer is empty.
C1_Witness ==
  \E t \in Callers :
    /\ bufUsers = {t} /\ pc[t] = "idle" /\ call[t].op = "Flush"
    /\ Len(call[t].pre) = 2 /\ call[t].pre[1] # call[t].pre[2]
    /\ eng[t].list = call[t].pre
    /\ call[t].ret = EngineError
    /\ u_args = <<>>

\* C2: no step of an Update(args...) call with arguments changes the pending
\* buffer, and the request it sends holds exactly the one row built from its
\* own arguments.
C2_ImmediateFrame ==
  /\ [](\A t \in Callers :
          (call[t].op = "Update" /\ call[t].ncalls >= 1) =>
            /\ eng[t].entry = "update"
            /\ eng[t].list = <<join(call[t].args)>>)
  /\ [][\A t \in Callers : \A args \in RowArgs :
          (\/ Updater_Update_args(t, args)
           \/ (call[t].op = "Update" /\ Updater_update(t))
           \/ (call[t].op = "Update" /\ Updater_Update_ret(t)))
            => u_args' = u_args]_vars

\* C2 witness: an immediate Update has returned while rows are pending.
C2_Witness ==
  \E t \in Callers :
    /\ call[t].op = "Update" /\ pc[t] = "idle" /\ call[t].ncalls = 1
    /\ Len(u_args) > 0
    /\ eng[t].list = <<join(call[t].args)>>

\* C3: a zero-argument Update that finds the pending buffer empty returns nil
\* in that step, without a request to the engine, and the buffer stays empty.
C3_EmptyFlushIsNoop ==
  [][\A t \in Callers :
       (Updater_Update_flush(t) /\ u_args = <<>>) =>
         /\ pc'[t] = "idle"
         /\ call'[t].ret = Nil
         /\ call'[t].ncalls = 0
         /\ engineCalls' = engineCalls
         /\ eng' = eng
         /\ u_args' = <<>>]_vars

\* C3 witness: a zero-argument Update returned without touching the engine
\* after an earlier flush had emptied the buffer.
C3_Witness ==
  \E t \in Callers :
    /\ call[t].op = "Flush" /\ pc[t] = "idle" /\ call[t].ncalls = 0
    /\ call[t].ret = Nil /\ u_args = <<>>
    /\ engineCalls.update = 1 /\ bufUsers = {t}

\* C4: Create(false) on a target that exists returns the filesystem error in
\* that step, never reaches the engine's create entry point, and leaves the
\* target and every Creator's token list as they were.
C4_CreateExisting ==
  [][\A t \in Callers :
       (Creator_Create(t, FALSE) /\ fs = "present") =>
         /\ pc'[t] = "idle"
         /\ call'[t].ret = FsError
         /\ call'[t].ncalls = 0
         /\ engineCalls' = engineCalls
         /\ eng' = eng
         /\ fs' = fs
         /\ c_args' = c_args]_vars

\* C4 witness: a Creator with tokens whose Create(false) met an existing
\* target in a directory where files can be created.
C4_Witness ==
  \E t \in Callers :
    /\ call[t].op = "Create" /\ ~call[t].overwrite /\ call[t].existed
    /\ creatable /\ pc[t] = "idle" /\ call[t].ret = FsError
    /\ Len(c_args[t]) > 0 /\ fs = "present"

InEngineGraph == {t \in Callers : pc[t] = "graph_engine"}

\* C5: at most one Graph or SaveGraph call is inside the engine's graph entry
\* point.
C5_RenderMutex == Cardinality(InEngineGraph) <= 1

\* C5 witness: a Graph call is inside the engine while a SaveGraph call of
\* another caller waits for the lock.
C5_Witness ==
  \E t, o \in Callers :
    /\ pc[t] = "graph_engine" /\ call[t].op = "Graph"
    /\ pc[o] = "graph_call" /\ call[o].op = "SaveGraph"

\* C6: the lock is held exactly while a render call is inside the engine, so
\* it is free whenever no render is in progress; and every render call waiting
\* for the lock eventually enters the engine.
C6_LockReleased ==
  /\ [](\A t \in Callers : g_m = t <=> pc[t] = "graph_engine")
  /\ []((InEngineGraph = {}) => g_m = "")
  /\ \A t \in Callers : (pc[t] = "graph_call") ~> (pc[t] = "graph_engine")

\* C6 witness: a render call is inside the engine after another caller's
\* render has failed.
C6_Witness ==
  \E t, o \in Callers :
    /\ pc[t] = "graph_engine"
    /\ call[o].op \in Renders /\ pc[o] = "idle" /\ call[o].ret = EngineError

\* C7: when one caller t makes all the calls on the Grapher, between its
\* element calls the token sequence is the tokens of those calls in call order,
\* and a render call passes exactly that sequence to the engine.
C7_AppendOrder ==
  \A t \in Callers :
    g_users \subseteq {t} =>
      /\ pc[t] # "push_store" => g_args = pushLog
      /\ (call[t].op \in Renders /\ call[t].ncalls = 1) =>
           /\ eng[t].entry = "graph"
           /\ eng[t].list = pushLog

\* C7 witness: one caller appended two different tokens and its render call
\* handed both to the engine.
C7_Witness ==
  \E t \in Callers :
    /\ g_users = {t} /\ call[t].op \in Renders /\ call[t].ncalls = 1
    /\ Len(eng[t].list) = 2 /\ eng[t].list[1] # eng[t].list[2]
    /\ eng[t].list = pushLog

\* C8: every Update(args...) call sends one request whose only row is built
\* from its own arguments, and returns the answer to that request, whatever
\* the other callers do.
C8_ImmediateIndependent ==
  \A t \in Callers :
    call[t].op = "Update" =>
      /\ call[t].ncalls <= 1
      /\ call[t].a = <<join(call[t].args)>>
      /\ call[t].ncalls = 1 =>
           /\ eng[t].list = <<join(call[t].args)>>
           /\ call[t].err = eng[t].out
      /\ (pc[t] = "idle") => (call[t].ncalls = 1 /\ call[t].ret = eng[t].out)

\* C8 witness: two callers' immediate Updates with different rows are back
\* from the engine at once, one accepted and one refused.
C8_Witness ==
  \E t, o \in Callers :
    /\ pc[t] = "update_back" /\ pc[o] = "update_back"
    /\ call[t].op = "Update" /\ call[o].op = "Update"
    /\ call[t].args # call[o].args
    /\ eng[t].out = Nil /\ eng[o].out = EngineError
    /\ eng[t].list # eng[o].list

\* C9: a call invokes its engine entry point at most once, and a call that
\* has returned after invoking it returns the engine's answer.
C9_NoRetry ==
  \A t \in Callers :
    /\ call[t].ncalls <= 1
    /\ (pc[t] = "idle" /\ call[t].ncalls = 1) => call[t].ret = eng[t].out
    /\ (pc[t] = "idle" /\ call[t].ncalls = 0) => call[t].ret \in {Nil, FsError}

\* C9 witness: a call has returned the error of its single engine request.
C9_Witness ==
  \E t \in Callers :
    /\ pc[t] = "idle" /\ call[t].ncalls = 1
    /\ eng[t].out = EngineError /\ call[t].ret = EngineError

\* C10 as claimed: the engine's create entry point is invoked at most once
\* for one Creator, over any sequence of Create calls.
C10_Original == \A t \in Callers : engineCalls.create[t] <= 1

\* C10 amended: each Create call invokes the engine's create entry point at
\* most once, with the target and the accumulated tokens of its own Creator,
\* and the engine is invoked no more often than operations were started.
C10_OncePerCreate ==
  \A t \in Callers :
    /\ call[t].op = "Create" =>
         /\ call[t].ncalls <= 1
         /\ call[t].ncalls = 1 =>
              /\ eng[t].entry = "create"
              /\ eng[t].target = filename
              /\ eng[t].list = c_args[t]
    /\ engineCalls.create[t] + opsLeft <= MaxCreatorOps

\* C10 witness: the second Create call of one Creator reached the engine too.
C10_Witness ==
  \E t \in Callers :
    /\ engineCalls.create[t] = 2 /\ call[t].op = "Create"
    /\ call[t].ncalls = 1 /\ Len(c_args[t]) > 0
    /\ eng[t].list = c_args[t]

\* strings.Split(s, sep) for a one-character sep.
RECURSIVE strings_Split(_, _)
strings_Split(s, sep) ==
  IF \A i \in 1..Len(s) : SubSeq(s, i, i) # sep THEN <<s>>
  ELSE LET i == CHOOSE i \in 1..Len(s) :
                  /\ SubSeq(s, i, i) = sep
                  /\ \A j \in 1..(i-1) : SubSeq(s, j, j) # sep
       IN <<SubSeq(s, 1, i-1)>> \o strings_Split(SubSeq(s, i+1, Len(s)), sep)

\* Occurrences of the character c in s.
CountChar(s, c) == Cardinality({i \in 1..Len(s) : SubSeq(s, i, i) = c})

RECURSIVE SumSeq(_)
SumSeq(ns) == IF Len(ns) = 0 THEN 0 ELSE Head(ns) + SumSeq(Tail(ns))

\* The textual forms of the values of an argument list.
Rendered(args) == [i \in 1..Len(args) |-> joinElem(args[i])]

DelimiterFree(ss) == \A i \in 1..Len(ss) : CountChar(ss[i], ":") = 0

\* C11: join of no values is the empty string, join of one value is that
\* value's text; join of k >= 1 values adds exactly k-1 ":" to the texts of
\* the values, and when no text holds a ":" the result has k-1 of them and
\* splitting it on ":" gives back the k texts in the order of the list.
C11_JoinShape ==
  \A t \in Callers :
    call[t].op = "join" =>
      LET args == call[t].args
          out == call[t].a[1]
          r == Rendered(args)
          k == Len(args)
      IN /\ k = 0 => out = ""
         /\ k = 1 => out = r[1]
         /\ k >= 1 =>
              CountChar(out, ":") =
                (k - 1) + SumSeq([i \in 1..k |-> CountChar(r[i], ":")])
         /\ (k >= 1 /\ DelimiterFree(r)) =>
              /\ CountChar(out, ":") = k - 1
              /\ strings_Split(out, ":") = r

\* C11 witness: three delimiter-free values of three kinds joined with two
\* delimiters.
C11_Witness ==
  \E t \in Callers :
    /\ call[t].op = "join"
    /\ call[t].args = <<IntV(10), TimeV(5), StrV("N")>>
    /\ call[t].a = <<"10:5:N">>

Digits == {"0", "1", "2", "3", "4", "5", "6", "7", "8", "9"}

\* s is the decimal notation of a natural number.
IsDigits(s) == Len(s) > 0 /\ \A i \in 1..Len(s) : SubSeq(s, i, i) \in Digits

\* The text the serializer owes a value: the epoch seconds for a time, the
\* default conversion for anything else.
Owed(v) == IF v.k = "time" THEN ToString(v.n) ELSE Sprint(v)

\* C12: join's result is the owed texts of its values joined in order; when
\* those texts are delimiter-free, the text at the position of a time value
\* is its epoch seconds in digits, not the calendar string its default
\* conversion gives, and the text at any other position is the value's
\* default conversion.
C12_TimeAsEpoch ==
  \A t \in Callers :
    call[t].op = "join" =>
      LET args == call[t].args
          out == call[t].a[1]
          owed == [i \in 1..Len(args) |-> Owed(args[i])]
      IN /\ out = strings_Join(owed, ":")
         /\ (Len(args) >= 1 /\ DelimiterFree(owed)) =>
              \A i \in 1..Len(args) :
                LET x == strings_Split(out, ":")[i]
                IN IF args[i].k = "time"
                     THEN /\ IsDigits(x)
                          /\ x = ToString(args[i].n)
                          /\ x # Sprint(args[i])
                     ELSE x = Sprint(args[i])

\* C12 witness: a time value at the first and at the last position, a string
\* between them.
C12_Witness ==
  \E t \in Callers :
    /\ call[t].op = "join"
    /\ call[t].args = <<TimeV(5), StrV("N"), TimeV(5)>>
    /\ call[t].a = <<"5:N:5">>

\* C13: for the same variable name and format, PrintT's element is Print's
\* element followed by ":strftime" and GPrintT's element is GPrint's element
\* followed by ":strftime"; the plain elements are the command, the name and
\* the format joined by ":".
C13_StrftimeSuffix ==
  \A t \in Callers :
    call[t].op = "tokens" =>
      LET vname == call[t].args[1].s
          format == call[t].args[2].s
          tok == call[t].a
      IN /\ tok[1] = "PRINT:" \o vname \o ":" \o format
         /\ tok[2] = tok[1] \o ":strftime"
         /\ tok[3] = "GPRINT:" \o vname \o ":" \o format
         /\ tok[4] = tok[3] \o ":strftime"
         /\ Len(tok[2]) = Len(tok[1]) + 9
         /\ Len(tok[4]) = Len(tok[3]) + 9

\* C13 witness: the four elements for a format that itself holds a ":".
C13_Witness ==
  \E t \in Callers :
    /\ call[t].op = "tokens"
    /\ call[t].args = <<StrV("a"), StrV("%H:%M")>>
    /\ call[t].a = << "PRINT:a:%H:%M", "PRINT:a:%H:%M:strftime",
                      "GPRINT:a:%H:%M", "GPRINT:a:%H:%M:strftime" >>

\* A step of an accumulation or configuration call of caller t: the call's
\* first step, which uses up one of the operations, or a later step of Cache
\* or push.
AccumulationStep(t) ==
  /\ IF pc[t] = "idle" THEN opsLeft' = opsLeft - 1
      ELSE pc[t] \in {"cache_read", "cache_store", "push_store"}
  /\ \/ \E d \in DSArgs : Creator_DS(t, d.name, d.compute, d.args)
     \/ \E r \in RRAArgs : Creator_RRA(t, r.cf, r.args)
     \/ \E ds \in TemplateArgs : Updater_SetTemplate(t, ds)
     \/ \E args \in RowArgs : Updater_Cache(t, args)
     \/ Updater_Cache_read(t)
     \/ Updater_Cache_store(t)
     \/ Grapher_Def(t, "a", "db.rrd", "in", "AVERAGE", <<"step=60">>)
     \/ Grapher_VDef(t, "b", "a,MAXIMUM")
     \/ Grapher_CDef(t, "c", "a,8,*")
     \/ \E color \in {"", "FF0000"} : Grapher_Line(t, 1, "a", color, <<>>)
     \/ Grapher_Print(t, "b", "%lf")
     \/ Grapher_PrintT(t, "b", "%lf")
     \/ Grapher_GPrint(t, "b", "%lf")
     \/ Grapher_GPrintT(t, "b", "%lf")
     \/ Grapher_push_store(t)
     \/ Grapher_SetTitle(t, "Traffic")
     \/ Grapher_SetVLabel(t, "bps")
     \/ Grapher_SetSize(t, 400, 100)

\* A step in which caller t's call crosses into the engine or comes back.
EngineStep(t) ==
  \/ call[t].op = "Create" /\ Creator_create(t)
  \/ call[t].op \in {"Update", "Flush"} /\ Updater_update(t)
  \/ call[t].op \in Renders /\ Grapher_graph_enter(t)
  \/ call[t].op \in Renders /\ Grapher_graph_leave(t)

\* What a step of an accumulation or configuration call of caller t leaves
\* alone: the engine, the target file, the other kinds of object, and the
\* other caller's Creator.
AccumulationFrame(t) ==
  /\ engineCalls' = engineCalls
  /\ eng' = eng
  /\ fs' = fs
  /\ \A o \in Callers \ {t} : c_args'[o] = c_args[o]
  /\ scope = "creator" => UNCHANGED <<updaterVars, grapherVars>>
  /\ scope = "updater" => UNCHANGED <<creatorVars, grapherVars>>
  /\ scope \in GrapherScopes => UNCHANGED <<creatorVars, updaterVars>>

\* C14: a step that invokes the engine or changes what the engine was given
\* or answered is a step of a Create, Update, Graph or SaveGraph call; and a
\* step that changes the engine's records, the target file, another kind of
\* object or another caller's Creator is not a step of DS, RRA, SetTemplate,
\* Cache, Def, VDef, CDef, Line, Print, PrintT, GPrint, GPrintT, SetTitle,
\* SetVLabel or SetSize: those change fields of their own object only.
C14_EngineFrame ==
  /\ [][(engineCalls' # engineCalls \/ eng' # eng) =>
          \E t \in Callers : EngineStep(t)]_vars
  /\ [][\A t \in Callers :
          ~AccumulationFrame(t) => ~AccumulationStep(t)]_vars

\* C14 witness: the Grapher was configured and given an element, and the only
\* engine request so far is the one of the render call that followed.
C14_Witness ==
  \E t \in Callers :
    /\ call[t].op \in Renders /\ call[t].ncalls = 1
    /\ engineCalls.graph = 1
    /\ g_opts.title = "Traffic"
    /\ Len(g_args) = 1
    /\ eng[t].list = g_args

\* C15: a Creator's command list changes only in its own DS and RRA calls,
\* each of which appends one token to it ("DS:" and the definition for DS,
\* "RRA:" and the definition for RRA), so the list is the calls in call
\* order; Create(true) makes no probe (the target is left as it is) and goes
\* on to the engine whatever the target's state; Create(false) on a target
\* that does not exist and can be created goes on to the engine too; and
\* the request that reaches the engine holds the Creator's list.
C15_CommandList ==
  /\ [][\A t \in Callers : \A d \in DSArgs :
          Creator_DS(t, d.name, d.compute, d.args) =>
            /\ c_args'[t] = Append(c_args[t], "DS:in:GAUGE:60:0:U")
            /\ \A o \in Callers \ {t} : c_args'[o] = c_args[o]]_vars
  /\ [][\A t \in Callers : \A r \in RRAArgs :
          Creator_RRA(t, r.cf, r.args) =>
            /\ c_args'[t] = Append(c_args[t], "RRA:AVERAGE:1:24")
            /\ \A o \in Callers \ {t} : c_args'[o] = c_args[o]]_vars
  /\ [][c_args' # c_args =>
          \E t \in Callers :
            \/ \E d \in DSArgs : Creator_DS(t, d.name, d.compute, d.args)
            \/ \E r \in RRAArgs : Creator_RRA(t, r.cf, r.args)]_vars
  /\ [][\A t \in Callers :
          Creator_Create(t, TRUE) =>
            /\ pc'[t] = "create_call"
            /\ fs' = fs]_vars
  /\ [][\A t \in Callers :
          (Creator_Create(t, FALSE) /\ fs = "absent" /\ creatable) =>
            pc'[t] = "create_call"]_vars
  /\ [][\A t \in Callers :
          Creator_create(t) =>
            /\ eng'[t].entry = "create"
            /\ eng'[t].target = filename
            /\ eng'[t].list = c_args[t]
            /\ engineCalls'.create[t] = engineCalls.create[t] + 1]_vars

\* C15 witness: Create(true) on a target that exists handed the engine the
\* DS token and the RRA token in the order of the calls.
C15_Witness ==
  \E t \in Callers :
    /\ call[t].op = "Create" /\ call[t].overwrite /\ call[t].existed
    /\ call[t].ncalls = 1
    /\ eng[t].list = <<"DS:in:GAUGE:60:0:U", "RRA:AVERAGE:1:24">>

\* The texts of the rows the callers give.
RowTexts == { join(args) : args \in RowArgs }

\* Occurrences of the row r in the list rows.
CountRow(rows, r) == Cardinality({i \in 1..Len(rows) : rows[i] = r})

\* No call is in progress.
Quiet == \A t \in Callers : pc[t] = "idle"

\* A row accepted by Cache since the last zero-argument Update began is not
\* in the pending buffer, and no call is in progress that could still hand it
\* to the engine: no request has held it and none will.
LostRow ==
  /\ Quiet
  /\ \E r \in RowTexts : CountRow(cacheLog, r) > CountRow(u_args, r)

\* A zero-argument Update handed the engine the rows cached before it, each
\* once, in an order that is not the order of the Cache calls.
Misordered ==
  \E t \in Callers :
    /\ call[t].op = "Flush" /\ call[t].ncalls = 1
    /\ \A r \in RowTexts : CountRow(eng[t].list, r) = CountRow(call[t].pre, r)
    /\ eng[t].list # call[t].pre

\* C16: a row accepted by Cache is lost, or rows reach the engine in an order
\* other than the call order, only when two callers have used the buffered
\* path of the one Updater.
C16_SingleWriterOnly == (LostRow \/ Misordered) => Cardinality(bufUsers) = 2

\* C16 witness: a row cached by one caller while the other caller's flush was
\* in flight is gone once the flush has cleared the buffer; the engine was
\* given the earlier row only.
C16_Witness ==
  \E t, o \in Callers :
    /\ t # o /\ Quiet
    /\ call[t].op = "Flush" /\ call[t].ncalls = 1
    /\ Len(eng[t].list) = 1
    /\ Len(cacheLog) = 1 /\ cacheLog[1] # eng[t].list[1]
    /\ eng[o] = NoReq
    /\ u_args = <<>>
    /\ bufUsers = {t, o}

\* C16, the other interleavings: of two concurrent appends one is lost.
C16_LostAppend ==
  /\ Quiet /\ engineCalls.update = 0
  /\ Len(cacheLog) = 2 /\ Len(u_args) = 1
  /\ cacheLog[1] # cacheLog[2]

\* C16, the other interleavings: two rows reach the engine in one request,
\* in the order opposite to the order of their Cache calls.
C16_Reordered ==
  \E t \in Callers :
    /\ Misordered
    /\ call[t].op = "Flush" /\ call[t].ncalls = 1
    /\ Len(call[t].pre) = 2
    /\ eng[t].list = <<call[t].pre[2], call[t].pre[1]>>

\* C17: the Grapher's lock is held by a caller only while its Graph or
\* SaveGraph call is inside the engine; a caller outside any call can start
\* every element and option call, and a caller inside push can finish it,
\* whoever holds the lock.
C17_AccumulationLockFree ==
  \A t \in Callers :
    /\ g_m = t => (call[t].op \in Renders /\ pc[t] = "graph_engine")
    /\ pc[t] = "push_store" =>
         /\ g_m # t
         /\ ENABLED Grapher_push_store(t)
    /\ (scope \in GrapherScopes /\ pc[t] = "idle" /\ opsLeft > 0) =>
         /\ ENABLED Grapher_Def(t, "a", "db.rrd", "in", "AVERAGE", <<"step=60">>)
         /\ ENABLED Grapher_VDef(t, "b", "a,MAXIMUM")
         /\ ENABLED Grapher_CDef(t, "c", "a,8,*")
         /\ ENABLED Grapher_Line(t, 1, "a", "FF0000", <<>>)
         /\ ENABLED Grapher_Print(t, "b", "%lf")
         /\ ENABLED Grapher_PrintT(t, "b", "%lf")
         /\ ENABLED Grapher_GPrint(t, "b", "%lf")
         /\ ENABLED Grapher_GPrintT(t, "b", "%lf")
         /\ ENABLED Grapher_SetTitle(t, "Traffic")
         /\ ENABLED Grapher_SetVLabel(t, "bps")
         /\ ENABLED Grapher_SetSize(t, 400, 100)

\* C17 witness: while one caller's render is inside the engine and holds the
\* lock, the other caller's element call has returned and the token sequence
\* is no longer the one the engine was given.
C17_Witness ==
  \E t, o \in Callers :
    /\ t # o
    /\ pc[o] = "graph_engine" /\ g_m = o
    /\ pc[t] = "idle" /\ call[t] = NoCall /\ t \in g_users
    /\ g_args # eng[o].list
    /\ Len(g_args) = Len(eng[o].list) + 1

\* C18: the template changes only in a SetTemplate call, which sets it to the
\* names joined by ":"; no step of Cache or Update changes it, the step that
\* clears the buffer after a flush included; every request to the engine's
\* update entry point, immediate or bulk, carries the template as it is at
\* that moment, which is empty as long as SetTemplate has not been called.
C18_TemplatePersists ==
  /\ [][u_template' # u_template =>
          \E t \in Callers : \E ds \in TemplateArgs :
            Updater_SetTemplate(t, ds) /\ u_template' = "in:out"]_vars
  /\ [][\A t \in Callers :
          Updater_update(t) =>
            /\ eng'[t].entry = "update"
            /\ eng'[t].opt = u_template
            /\ u_template' = u_template]_vars
  /\ [][\A t \in Callers :
          Updater_Update_ret(t) =>
            /\ u_template' = u_template
            /\ eng' = eng]_vars
  /\ [](\A t \in Callers :
          (eng[t].entry = "update" /\ eng[t].opt # "") =>
            (eng[t].opt = "in:out" /\ u_template = "in:out"))

\* C18 witness: a flush carried the template set before it, and after the
\* flush has cleared the buffer the template is still set.
C18_Witness ==
  \E t \in Callers :
    /\ call[t].op = "Flush" /\ pc[t] = "idle" /\ call[t].ncalls = 1
    /\ eng[t].opt = "in:out"
    /\ u_args = <<>>
    /\ u_template = "in:out"

\* The callers whose Create(false) call has passed the probe.
PastProbe ==
  { t \in Callers :
      /\ call[t].op = "Create" /\ ~call[t].overwrite
      /\ (pc[t] \in {"create_call", "create_back"} \/ call[t].ncalls = 1) }

\* C19: as long as nobody has removed the target, at most one exclusive
\* create of it has returned nil; only a Create(false) call whose exclusive
\* create returned nil goes on to the engine, every other Create(false) call
\* returns the filesystem error without a request; and after that one probe
\* the target exists whatever the engine answered.
C19_AtMostOneProbe ==
  ~deleted =>
    /\ probes <= 1
    /\ Cardinality(PastProbe) <= probes
    /\ probes = 1 => fs = "present"
    /\ \A t \in Callers :
         (call[t].op = "Create" /\ ~call[t].overwrite) =>
           /\ call[t].ncalls <= 1
           /\ (pc[t] = "idle" /\ t \notin PastProbe) =>
                (call[t].ret = FsError /\ call[t].ncalls = 0)
           /\ (pc[t] = "idle" /\ t \in PastProbe) =>
                (~call[t].existed /\ call[t].ret = eng[t].out)

\* C19 witness: one Create(false) passed the probe and its engine request
\* failed; a later Create(false) of the other Creator found the target the
\* probe had created and returned the filesystem error.
C19_Witness ==
  \E t, o \in Callers :
    /\ t # o /\ ~deleted /\ probes = 1
    /\ call[t].op = "Create" /\ ~call[t].overwrite /\ ~call[t].existed
    /\ pc[t] = "idle" /\ call[t].ncalls = 1 /\ call[t].ret = EngineError
    /\ call[o].op = "Create" /\ ~call[o].overwrite /\ call[o].existed
    /\ pc[o] = "idle" /\ call[o].ncalls = 0 /\ call[o].ret = FsError
    /\ engineCalls.create[o] = 0
====
